---- MODULE Spec2Model ----
(***************************************************************************)
(* A model of quiz.py: the command-line quiz runner.  One run of main() is  *)
(* a state machine: check the count argument, load the question file,      *)
(* validate it, select the questions, administer them one at a time        *)
(* (display, read an answer, score, explain) and report the score.         *)
(*                                                                         *)
(* Text is modelled as sequences of characters over a small alphabet so    *)
(* that str.strip() and str.lower() are computed, not assumed.             *)
(***************************************************************************)
EXTENDS Integers, Sequences, FiniteSets, TLC

\* ------------------------------------------------------------------ bounds
MaxQuestions == 2      \* longest question list a file holds
MaxCount == 3          \* largest count argument (the smallest is -1)
MaxLineLen == 2        \* longest line typed at the prompt

\* -------------------------------------------------------------------- text
Chars == {"a", "b", "A", " "}

Lines == UNION {[1..n -> Chars] : n \in 0..MaxLineLen}

\* str.lower() on one character of the alphabet
LowerChar(c) == IF c = "A" THEN "a" ELSE c

lower(s) == [k \in 1..Len(s) |-> LowerChar(s[k])]

RECURSIVE lstrip(_)
lstrip(s) == IF s # <<>> /\ Head(s) = " " THEN lstrip(Tail(s)) ELSE s

RECURSIVE rstrip(_)
rstrip(s) == IF s # <<>> /\ s[Len(s)] = " " THEN rstrip(SubSeq(s, 1, Len(s) - 1)) ELSE s

strip(s) == rstrip(lstrip(s))

\* ------------------------------------------------------------ the records
required_fields == <<"id", "q", "options", "answer", "answer_description">>

AllFields == {required_fields[k] : k \in 1..Len(required_fields)}

\* A question record of the file: the fields it carries, its options value
\* (a dict with insertion-ordered keys, or some other JSON value) and its
\* answer.  options and answer are read only when the field is present.
Question(fields, isdict, keys, answer) ==
    [fields |-> fields, options |-> [isdict |-> isdict, keys |-> keys], answer |-> answer]

Ka == <<"a">>
Kb == <<"b">>
KA == <<"A">>
Ksa == <<" ", "a">>

WellFormed ==
    { Question(AllFields, TRUE, <<Ka, Kb>>, Ka),
      Question(AllFields, TRUE, <<KA, Ka>>, KA),
      Question(AllFields, TRUE, <<KA, Ksa>>, KA) }

Malformed ==
    { Question(AllFields \ {"id"}, TRUE, <<Ka, Kb>>, Ka),
      Question(AllFields \ {"answer_description"}, TRUE, <<Ka, Kb>>, Kb),
      Question(AllFields \ {"options", "answer"}, FALSE, <<>>, <<>>),
      Question(AllFields \ {"q"}, TRUE, <<Ka>>, Kb),
      Question(AllFields, FALSE, <<>>, Ka),
      Question(AllFields, TRUE, <<Ka>>, Ka),
      Question(AllFields, TRUE, <<>>, Ka),
      Question(AllFields, TRUE, <<Ka, Kb>>, KA),
      Question(AllFields, TRUE, <<Kb>>, Ka) }

QuestionPool == WellFormed \cup Malformed

QuestionLists == UNION {[1..n -> QuestionPool] : n \in 0..MaxQuestions}

\* What the path names: no file, a file that is not JSON, JSON that is not a
\* list, or a list of records.
Files ==
    {[kind |-> k, content |-> <<>>] : k \in {"missing", "badjson", "notlist"}}
    \cup {[kind |-> "list", content |-> qs] : qs \in QuestionLists}

Counts == -1..MaxCount

\* ------------------------------------------------------------------- state
VARIABLES
    count,               \* args.count
    file,                \* what args.filename names
    pc,                  \* where main() is
    questions,           \* main: questions
    err,                 \* the ValueError validate_questions raised, if any
    selected_questions,  \* main: selected_questions
    picked,              \* the position in questions of each selected record
    warned,              \* the under-supply warning was printed
    i,                   \* run_quiz: the question being administered (1-based)
    line,                \* the last line read from the terminal
    user_answer,         \* get_user_answer / run_quiz: user_answer
    correct_answers,     \* run_quiz: correct_answers
    matches,             \* accepted lines that equal the answer key up to case and blanks
    steps,               \* per selected question, how often each step ran
    out,                 \* the last message printed
    exit_status          \* the process's exit status, -1 while it runs

vars == <<count, file, pc, questions, err, selected_questions, picked, warned, i,
          line, user_answer, correct_answers, matches, steps, out, exit_status>>

NoError == [kind |-> "none", pos |-> 0, field |-> "", answer |-> <<>>]

NoSteps == [present |-> 0, await |-> 0, score |-> 0, explain |-> 0]

Init ==
    /\ count \in Counts
    /\ file \in Files
    /\ pc = "args"
    /\ questions = <<>>
    /\ err = NoError
    /\ selected_questions = <<>>
    /\ picked = <<>>
    /\ warned = FALSE
    /\ i = 0
    /\ line = <<>>
    /\ user_answer = <<>>
    /\ correct_answers = 0
    /\ matches = 0
    /\ steps = <<>>
    /\ out = "none"
    /\ exit_status = -1

\* sys.exit(1) after printing msg
Fatal(msg) ==
    /\ out' = msg
    /\ exit_status' = 1
    /\ pc' = "exit"

\* --------------------------------------------------------- main: arguments
\* an argument check that lets a count of 0 through
CheckArgsNegative ==
    /\ pc = "args"
    /\ IF count < 0
         THEN Fatal("Error: Number of questions must be at least 1.")
         ELSE pc' = "load" /\ UNCHANGED <<out, exit_status>>
    /\ UNCHANGED <<count, file, questions, err, selected_questions, picked, warned, i,
                   line, user_answer, correct_answers, matches, steps>>

CheckArgs ==
    /\ pc = "args"
    /\ IF count < 1
         THEN Fatal("Error: Number of questions must be at least 1.")
         ELSE pc' = "load" /\ UNCHANGED <<out, exit_status>>
    /\ UNCHANGED <<count, file, questions, err, selected_questions, picked, warned, i,
                   line, user_answer, correct_answers, matches, steps>>

\* ---------------------------------------------------------- load_questions
load_questions(f) ==
    IF f.kind = "missing" THEN [ok |-> FALSE, msg |-> "Error: File not found.", questions |-> <<>>]
    ELSE IF f.kind = "badjson" THEN [ok |-> FALSE, msg |-> "Error: File contains invalid JSON.", questions |-> <<>>]
    ELSE IF f.kind = "notlist" THEN [ok |-> FALSE, msg |-> "Error loading questions", questions |-> <<>>]
    ELSE [ok |-> TRUE, msg |-> "", questions |-> f.content]

LoadQuestions ==
    /\ pc = "load"
    /\ LET r == load_questions(file) IN
         IF r.ok
           THEN /\ questions' = r.questions
                /\ pc' = "validate"
                /\ UNCHANGED <<out, exit_status>>
           ELSE /\ Fatal(r.msg)
                /\ UNCHANGED questions
    /\ UNCHANGED <<count, file, err, selected_questions, picked, warned, i,
                   line, user_answer, correct_answers, matches, steps>>

\* ------------------------------------------------------ validate_questions
\* The checks of one record, in the order of the loop body; pos is i+1.
CheckRecord(q, pos) ==
    IF \E k \in 1..Len(required_fields) : required_fields[k] \notin q.fields
      THEN LET first == CHOOSE k \in 1..Len(required_fields) :
                            /\ required_fields[k] \notin q.fields
                            /\ \A j \in 1..(k - 1) : required_fields[j] \in q.fields
           IN [kind |-> "missing", pos |-> pos, field |-> required_fields[first], answer |-> <<>>]
    ELSE IF ~q.options.isdict \/ Len(q.options.keys) < 2
      THEN [kind |-> "options", pos |-> pos, field |-> "", answer |-> <<>>]
    ELSE IF ~(\E k \in 1..Len(q.options.keys) : q.options.keys[k] = q.answer)
      THEN [kind |-> "answer", pos |-> pos, field |-> "", answer |-> q.answer]
    ELSE NoError

RECURSIVE validate_from(_, _)
validate_from(qs, pos) ==
    IF pos > Len(qs) THEN NoError
    ELSE LET r == CheckRecord(qs[pos], pos) IN
         IF r # NoError THEN r ELSE validate_from(qs, pos + 1)

\* a validator that keeps going and reports the last offending record
RECURSIVE validate_back(_, _)
validate_back(qs, pos) ==
    IF pos < 1 THEN NoError
    ELSE LET r == CheckRecord(qs[pos], pos) IN
         IF r # NoError THEN r ELSE validate_back(qs, pos - 1)

validate_questions_last(qs) == validate_back(qs, Len(qs))

\* a validator that looks at the first record only
validate_questions_head(qs) ==
    IF qs = <<>> THEN NoError ELSE CheckRecord(qs[1], 1)

\* The ValueError raised, or NoError when the loop runs to its end.
validate_questions(qs) == validate_from(qs, 1)

ValidateQuestions ==
    /\ pc = "validate"
    /\ LET r == validate_questions(questions) IN
         /\ err' = r
         /\ IF r # NoError
              THEN Fatal("Error: invalid question")
              ELSE pc' = "select" /\ UNCHANGED <<out, exit_status>>
    /\ UNCHANGED <<count, file, questions, selected_questions, picked, warned, i,
                   line, user_answer, correct_answers, matches, steps>>

\* ------------------------------------------------ select_random_questions
\* The outcomes of random.shuffle on a list of n elements.
Shuffles(n) == {p \in [1..n -> 1..n] : \A a, b \in 1..n : p[a] = p[b] => a = b}

Identity(n) == [k \in 1..n |-> k]

\* a selection that draws with replacement
select_with_replacement(qs, cnt, perm) ==
    IF cnt > Len(qs)
      THEN [ret |-> qs, picked |-> Identity(Len(qs)), arg |-> qs, warned |-> TRUE]
      ELSE [ret |-> [k \in 1..cnt |-> qs[perm[1]]], picked |-> [k \in 1..cnt |-> perm[1]],
            arg |-> qs, warned |-> FALSE]

\* ret: the list returned; picked: the position in qs of each element of ret;
\* arg: the argument list after the call; warned: the warning was printed.
select_random_questions(qs, cnt, perm) ==
    IF cnt > Len(qs)
      THEN [ret |-> qs, picked |-> Identity(Len(qs)), arg |-> qs, warned |-> TRUE]
      ELSE LET shuffled == [k \in 1..Len(qs) |-> qs[perm[k]]] IN
           [ret |-> SubSeq(shuffled, 1, cnt), picked |-> SubSeq(perm, 1, cnt),
            arg |-> qs, warned |-> FALSE]

\* main, "Check if we have enough questions"
SelectQuestions ==
    /\ pc = "select"
    /\ IF Len(questions) < count
         THEN /\ warned' = TRUE
              /\ out' = "Warning: Proceeding with all questions."
              /\ selected_questions' = questions
              /\ picked' = Identity(Len(questions))
              /\ UNCHANGED questions
         ELSE \E perm \in Shuffles(Len(questions)) :
                LET r == select_random_questions(questions, count, perm) IN
                  /\ selected_questions' = r.ret
                  /\ picked' = r.picked
                  /\ questions' = r.arg
                  /\ warned' = r.warned
                  /\ UNCHANGED out
    /\ pc' = "start"
    /\ UNCHANGED <<count, file, err, i, line, user_answer, correct_answers, matches,
                   steps, exit_status>>

\* ---------------------------------------------------------------- run_quiz
\* main prints "Starting quiz" and calls run_quiz, which enters its loop or,
\* on an empty list, returns 0 at once.
StartQuiz ==
    /\ pc = "start"
    /\ out' = "Starting quiz"
    /\ correct_answers' = 0
    /\ steps' = [k \in 1..Len(selected_questions) |-> NoSteps]
    /\ IF Len(selected_questions) = 0
         THEN pc' = "report" /\ UNCHANGED i
         ELSE pc' = "display" /\ i' = 1
    /\ UNCHANGED <<count, file, questions, err, selected_questions, picked, warned,
                   line, user_answer, matches, exit_status>>

question == selected_questions[i]

Ran(step) == [steps EXCEPT ![i][step] = @ + 1]

display_question ==
    /\ pc = "display"
    /\ out' = "Question"
    /\ steps' = Ran("present")
    /\ pc' = "input"
    /\ UNCHANGED <<count, file, questions, err, selected_questions, picked, warned, i,
                   line, user_answer, correct_answers, matches, exit_status>>

valid_options(q) == q.options.keys

InList(x, list) == \E k \in 1..Len(list) : list[k] = x

\* an answer loop that gives up on the first invalid line
get_user_answer_once ==
    /\ pc = "input"
    /\ \E l \in Lines :
         /\ line' = l
         /\ user_answer' = lower(strip(l))
         /\ IF InList(user_answer', valid_options(question))
              THEN /\ pc' = "score"
                   /\ steps' = Ran("await")
                   /\ matches' = matches + (IF lower(strip(l)) = lower(strip(question.answer)) THEN 1 ELSE 0)
                   /\ UNCHANGED <<out, exit_status>>
              ELSE /\ Fatal("Invalid answer.")
                   /\ UNCHANGED <<steps, matches>>
    /\ UNCHANGED <<count, file, questions, err, selected_questions, picked, warned, i,
                   correct_answers>>

\* One turn of the while loop: read a line, normalise it, return it when it
\* is one of the option keys and print the re-prompt otherwise.
get_user_answer ==
    /\ pc = "input"
    /\ \E l \in Lines :
         /\ line' = l
         /\ user_answer' = lower(strip(l))
         /\ IF InList(user_answer', valid_options(question))
              THEN /\ pc' = "score"
                   /\ steps' = Ran("await")
                   /\ matches' = matches + (IF lower(strip(l)) = lower(strip(question.answer)) THEN 1 ELSE 0)
                   /\ UNCHANGED out
              ELSE /\ out' = "Invalid answer."
                   /\ pc' = "input"
                   /\ UNCHANGED <<steps, matches>>
    /\ UNCHANGED <<count, file, questions, err, selected_questions, picked, warned, i,
                   correct_answers, exit_status>>

\* a loop body that shows the explanation only after a wrong answer
ScoreSkipExplain ==
    /\ pc = "score"
    /\ steps' = Ran("score")
    /\ IF user_answer = question.answer
         THEN /\ correct_answers' = correct_answers + 1
              /\ out' = "Correct!"
              /\ IF i < Len(selected_questions)
                   THEN i' = i + 1 /\ pc' = "display"
                   ELSE pc' = "report" /\ UNCHANGED i
         ELSE /\ out' = "Incorrect."
              /\ pc' = "explain"
              /\ UNCHANGED <<correct_answers, i>>
    /\ UNCHANGED <<count, file, questions, err, selected_questions, picked, warned,
                   line, user_answer, matches, exit_status>>

Score ==
    /\ pc = "score"
    /\ steps' = Ran("score")
    /\ IF user_answer = question.answer
         THEN correct_answers' = correct_answers + 1 /\ out' = "Correct!"
         ELSE out' = "Incorrect." /\ UNCHANGED correct_answers
    /\ pc' = "explain"
    /\ UNCHANGED <<count, file, questions, err, selected_questions, picked, warned, i,
                   line, user_answer, matches, exit_status>>

\* The explanation, then the next turn of the for loop or the return.
Explain ==
    /\ pc = "explain"
    /\ out' = "Explanation"
    /\ steps' = Ran("explain")
    /\ IF i < Len(selected_questions)
         THEN i' = i + 1 /\ pc' = "display"
         ELSE pc' = "report" /\ UNCHANGED i
    /\ UNCHANGED <<count, file, questions, err, selected_questions, picked, warned,
                   line, user_answer, correct_answers, matches, exit_status>>

\* ------------------------------------------------------ main: the results
\* correct_answers / len(selected_questions) raises ZeroDivisionError on an
\* empty selection, which the except Exception clause turns into exit 1;
\* otherwise main returns and the process exits with status 0.
Report ==
    /\ pc = "report"
    /\ IF Len(selected_questions) = 0
         THEN Fatal("Unexpected error: division by zero")
         ELSE /\ out' = "Quiz complete!"
              /\ exit_status' = 0
              /\ pc' = "exit"
    /\ UNCHANGED <<count, file, questions, err, selected_questions, picked, warned, i,
                   line, user_answer, correct_answers, matches, steps>>

Next ==
    \/ CheckArgs
    \/ LoadQuestions
    \/ ValidateQuestions
    \/ SelectQuestions
    \/ StartQuiz
    \/ display_question
    \/ get_user_answer
    \/ Score
    \/ Explain
    \/ Report

Spec == Init /\ [][Next]_vars

\* ================================================================ claims
\* What the data model asks of one record.
Valid(q) ==
    /\ AllFields \subseteq q.fields
    /\ q.options.isdict
    /\ Len(q.options.keys) >= 2
    /\ q.answer \in {q.options.keys[k] : k \in 1..Len(q.options.keys)}

\* validate_questions has returned or raised.
Validated == count >= 1 /\ file.kind = "list" /\ pc \notin {"args", "load", "validate"}

\* The selection has been made.
Selected == Validated /\ pc # "select" /\ err = NoError

\* e names a defect that q has.
Defect(q, e) ==
    \/ e.kind = "missing" /\ e.field \in AllFields \ q.fields
    \/ /\ e.kind = "options"
       /\ AllFields \subseteq q.fields
       /\ (~q.options.isdict \/ Len(q.options.keys) < 2)
    \/ /\ e.kind = "answer"
       /\ e.answer = q.answer
       /\ \A k \in 1..Len(q.options.keys) : q.options.keys[k] # q.answer

\* The line equals the key up to case and surrounding blanks.
SameKey(l, key) == lower(strip(l)) = lower(strip(key))

AllOnce == [present |-> 1, await |-> 1, score |-> 1, explain |-> 1]

\* C1: whenever main reaches the score computation, at least one question
\* was selected, so correct / total never divides by zero.
ReportTotalPositive == pc = "report" => Len(selected_questions) >= 1

\* C2: an input that equals the answer key up to case and blanks is never
\* rejected, and the tally run_quiz returns is the number of questions whose
\* accepted input equals the answer key up to case and blanks.
SessionScoring ==
    /\ (pc = "input" /\ out = "Invalid answer.") => ~SameKey(line, question.answer)
    /\ (pc = "report" \/ exit_status = 0) => correct_answers = matches

\* C3: from a list of at least 2 questions and a count between 1 and its
\* size, the selection has exactly count records, each the record at a
\* position of the input list, no position twice, and the list is unchanged.
SelectionDistinct ==
    (Selected /\ Len(file.content) >= 2 /\ count <= Len(file.content)) =>
        /\ Len(selected_questions) = count
        /\ Len(picked) = count
        /\ \A k \in 1..count :
             /\ picked[k] \in 1..Len(file.content)
             /\ selected_questions[k] = file.content[picked[k]]
        /\ \A a, b \in 1..count : picked[a] = picked[b] => a = b
        /\ questions = file.content

SelectionShuffled ==
    Selected /\ Len(file.content) = 2 /\ count = 2 /\ picked = <<2, 1>>

\* C4: when the count exceeds the number of questions, a warning is printed,
\* every record is selected exactly once, and the run does not end in a
\* fatal error.
UnderSupplyProceeds ==
    (Selected /\ count > Len(file.content)) =>
        /\ warned
        /\ selected_questions = file.content
        /\ picked = Identity(Len(file.content))
        /\ exit_status # 1

InvalidInputStays ==
    [][(pc = "input" /\ ~InList(lower(strip(line')), question.options.keys)) =>
          /\ pc' = "input"
          /\ i' = i
          /\ selected_questions' = selected_questions
          /\ correct_answers' = correct_answers
          /\ steps' = steps
          /\ exit_status' = -1
          /\ out' = "Invalid answer."]_vars

Reprompted == pc = "input" /\ out = "Invalid answer." /\ exit_status = -1

\* C7: each selected question is presented, answered, scored and explained
\* once, in that order and in the order of the selection; every scored
\* question is explained, and only scoring changes the tally, by 1.
StepsInOrder ==
    /\ \A k \in 1..Len(steps) :
         /\ steps[k].present <= 1
         /\ steps[k].await <= steps[k].present
         /\ steps[k].score <= steps[k].await
         /\ steps[k].explain <= steps[k].score
         /\ k > 1 => steps[k].present <= steps[k - 1].explain
    /\ correct_answers <= Cardinality({k \in 1..Len(steps) : steps[k].score = 1})
    /\ exit_status = 0 => \A k \in 1..Len(selected_questions) : steps[k] = AllOnce

StepFollows ==
    /\ pc = "display" => pc' = "input" /\ i' = i
    /\ pc = "input" => pc' \in {"input", "score"} /\ i' = i
    /\ pc = "score" => pc' = "explain" /\ i' = i
    /\ pc = "explain" =>
         /\ out' = "Explanation"
         /\ \/ pc' = "display" /\ i' = i + 1
            \/ pc' = "report" /\ i' = i /\ i = Len(selected_questions)
    /\ correct_answers' # correct_answers =>
         pc = "score" /\ correct_answers' = correct_answers + 1

SessionOrder == []StepsInOrder /\ [][StepFollows]_vars

WrongAnswerExplained ==
    /\ exit_status = 0
    /\ Len(selected_questions) = 2
    /\ correct_answers = 1

\* C8: with a count below 1 the process exits with status 1 before the file
\* is loaded or validated and before any question is selected or presented.
BadCountExitsFirst ==
    (count < 1 /\ pc # "args") =>
        /\ pc = "exit"
        /\ exit_status = 1
        /\ out = "Error: Number of questions must be at least 1."
        /\ questions = <<>>
        /\ err = NoError
        /\ selected_questions = <<>>
        /\ steps = <<>>

ZeroCountExited == count = 0 /\ pc = "exit" /\ file.kind = "list" /\ file.content # <<>>

\* C9: an invalid record anywhere in the list ends the run with status 1 at
\* validation, nothing selected or presented; and status 0 is reached only
\* when every selected question was administered and the summary printed.
InvalidFileNoRun ==
    /\ (Validated /\ \E k \in 1..Len(questions) : ~Valid(questions[k])) =>
          /\ pc = "exit"
          /\ exit_status = 1
          /\ out = "Error: invalid question"
          /\ selected_questions = <<>>
          /\ steps = <<>>
    /\ exit_status = 0 =>
          /\ out = "Quiz complete!"
          /\ Len(selected_questions) >= 1
          /\ i = Len(selected_questions)
          /\ \A k \in 1..Len(selected_questions) : steps[k] = AllOnce

LastRecordInvalid ==
    /\ Validated
    /\ Len(questions) = 2
    /\ Valid(questions[1])
    /\ ~Valid(questions[2])
    /\ exit_status = 1

\* C10: for every validated question some line is accepted, and a line that
\* is one of the option keys exactly as displayed is never rejected.
Answerable ==
    pc = "input" =>
        /\ \E l \in Lines : InList(lower(strip(l)), question.options.keys)
        /\ out = "Invalid answer." => ~InList(line, question.options.keys)

====
